---- MODULE Spec2Model ----
(***************************************************************************)
(* MaiChart: stream-based job queue (Redis streams with consumer groups),  *)
(* worker runtimes, chunked-session reconciler and session state machine.  *)
(*                                                                         *)
(* Three specifications share the variables below:                         *)
(*   SpecBase    BaseWorker.run on one topic with a pluggable handler      *)
(*   SpecDirect  streaming ingest + direct transcription workers           *)
(*   SpecChunk   chunked ingest + chunk transcription workers with their   *)
(*               completion-checker threads                                *)
(* Every Redis command is one atomic step; a Python function that issues   *)
(* several commands is a sequence of steps other processes interleave with.*)
(***************************************************************************)
EXTENDS Integers, Sequences, FiniteSets, TLC

\* ---------------------------------------------------------------- bounds
\* messages a producer appends to the topic of SpecBase
MaxProduced == 1
\* chunks create_chunks cuts an upload into
MaxChunks == 2
\* chunk messages the uploads append to the chunk topic
MaxQueued == 2
\* starts of chunk worker processes
MaxChunkStarts == 2
\* worker process starts in one behaviour, all workers together
MaxStarts == 4
\* clock quantum and saturation of the idle timers (milliseconds)
TickMs == 300001
MaxIdleMs == 300001

\* sessions, and the highest chunk_sequence a streaming client sends
MaxSessions == 1
MaxSeq == 1
\* chunk results handed to one merge_transcripts call
MaxResults == 2
\* words of one chunk transcript
MaxWords == 6
\* longest artifact handed to create_chunks (seconds)
MaxDuration == 700
\* highest chunk index whose ffmpeg run may fail
MaxFailIndex == 3
\* infrastructure errors in a row the environment inflicts on one worker
MaxInfraErrors == 5
\* messages on the topic where later messages matter, and the worker
\* process starts tried with them
MaxBacklog == 2
MaxBacklogStarts == 2
\* runs of the cleanup utility: none once a message has been dispatched more
\* often than this
MaxRedeliveries == 1

\* ------------------------------------------------------ program constants
\* base_worker.py:183  min_idle_time=300000 (5 minutes)
StuckIdleMs == 300000
\* base_worker.py:196 / :347  "if retry_count >= 3"
MaxRetries == 3
\* base_worker.py:146  cleanup_consumer_group claims with min_idle_time=0
CleanupIdleMs == 0
\* base_worker.py:314  max_consecutive_errors = 5
MaxConsecutiveErrors == 5
\* config.py:53  CHUNK_DURATION (seconds)
ChunkSeconds == 180

Workers == {"w1", "w2"}
\* every message id any of the specifications can assign
MsgIds == 1..(MaxProduced + MaxSessions + MaxQueued)
Sessions == 1..MaxSessions
Seqs == 0..MaxSeq

VARIABLES
    stream,        \* the topic: sequence of payloads, message id = index
    cursor,        \* consumer group's last-delivered id
    pel,           \* pending-entries list: id -> [owner, idle]
    dlq,           \* the dead-letter topic <stream>_dlq
    pc,            \* per worker process: position in run()
    running,       \* per worker: self.running
    scan,          \* per worker: xpending_range snapshot still to iterate
    claimed,       \* per worker: claimed_messages still to process
    cur,           \* per worker: (message_id, fields) in hand
    starts,        \* number of worker process starts so far
    dispatched,    \* per message: handler dispatches so far
    failed,        \* per message: handler failures so far
    succeeded,     \* messages whose handler returned True at least once
    reclaims,      \* per message: re-dispatches by a recovery pass so far
    acked,         \* messages removed from the pending list by XACK
    orphaned,      \* per message: its dispatch count when a worker died
                   \* inside its handler (0: never)
    hres,          \* per worker: what process_message returned
    sess,          \* session store: session_status:<id> hashes
    sfiles,        \* per session: the streaming directory and merged file
    medq,          \* the extraction topic medical_extraction_queue
    apc,           \* the API process: position in the request it serves
    chunkStatus,   \* chunk_status:<chunk_id> hashes
    ck,            \* per chunk worker: its completion-checker thread
    finals,        \* per session: final-status writes by check_chunked_completion
    arg,           \* AudioChunker call under study: its arguments
    ret,           \* AudioChunker call under study: its return value
    consecutive_errors,  \* per worker: run()'s local consecutive_errors
    exit_code,     \* per worker: what run() returned ("none": it has not)
    infra_errors   \* per worker: infrastructure errors in a row met by its loop

streamVars == <<stream, cursor, pel, dlq>>
workerVars == <<pc, running, scan, claimed, cur, starts>>
ghostVars == <<dispatched, failed, succeeded, reclaims, acked, orphaned>>
chunkVars == <<chunkStatus, ck, finals>>
txVars == <<hres, sess, sfiles, medq, apc, chunkVars>>
callVars == <<arg, ret>>
loopVars == <<consecutive_errors, exit_code, infra_errors>>
vars == <<streamVars, workerVars, ghostVars, txVars, callVars, loopVars>>

NoMsg == [id |-> 0, fields |-> <<>>]

\* a session_status:<id> hash; status "none": the key does not exist
NoSession == [status |-> "none", strategy |-> "none", mode |-> "none",
              received |-> 0, last |-> FALSE, total |-> 0,
              transcript |-> "none", error |-> FALSE, medq |-> FALSE,
              chunks_info |-> {}, parts |-> {}, warning |-> 0, ttl |-> FALSE]
\* streaming_<id>/ with its chunk_NNN.webm files, the chunks that went
\* into <id>_streaming_merged.webm, and the file save_uploaded_file wrote to
\* the upload folder with the pipeline it was routed to
NoFiles == [dir |-> FALSE, chunks |-> {}, merged |-> {}, upload |-> "none"]

\* chunk ids <session>_chunk_<index>; a chunk_status hash; status "none":
\* the key does not exist
ChunkIds == Sessions \X (0..(MaxChunks - 1))
NoChunk == [status |-> "none", text |-> "none", ttl |-> FALSE]
\* the completion-checker thread: not started / between two sessions of a scan
\* in check_chunked_completion, with the status_data it read (total_chunks,
\* completed_chunks, failed_chunks), the chunks _merge_chunk_results has
\* still to read and the chunk_results it collected
CkOff == [pc |-> "off", sid |-> 0, total_chunks |-> 0, completed_chunks |-> 0,
          failed_chunks |-> 0, todo |-> {}, chunk_results |-> {}]
CkIdle == [CkOff EXCEPT !.pc = "idle"]
\* no AudioChunker call under study
NoCall == [fn |-> "none"]

\* ----------------------------------------------------------- helpers
Min(S) == CHOOSE x \in S : \A y \in S : x <= y

RECURSIVE SortedSeq(_)
SortedSeq(S) == IF S = {} THEN <<>> ELSE <<Min(S)>> \o SortedSeq(S \ {Min(S)})

\* dict.get / dict assignment on a payload (a function from keys to values)
HasKey(d, k) == k \in DOMAIN d
Put(d, k, v) == [x \in (DOMAIN d) \cup {k} |-> IF x = k THEN v ELSE d[x]]

\* RedisClient.get_retry_count: int(message_data.get("retry_count", 0))
get_retry_count(message_data) ==
    IF HasKey(message_data, "retry_count") THEN message_data["retry_count"] ELSE 0

\* RedisClient.increment_retry_count: writes the caller's dict, not the stream
increment_retry_count(message_data) ==
    Put(message_data, "retry_count", get_retry_count(message_data) + 1)

\* --------------------------------------------------- Redis stream commands
\* XADD
XAdd(s, payload) == Append(s, payload)

\* XPENDING <stream> <group> - + 100: pending ids ascending with their idle time
XPendingRange == [i \in 1..Cardinality(DOMAIN pel) |->
                    [id |-> SortedSeq(DOMAIN pel)[i],
                     idle |-> pel[SortedSeq(DOMAIN pel)[i]].idle]]

\* XCLAIM <stream> <group> <consumer> <min-idle-time> <id>: succeeds iff the id
\* is pending and has been idle at least min-idle-time; resets its idle time
XClaimOk(id, minIdle) == id \in DOMAIN pel /\ pel[id].idle >= minIdle
XClaim(p, w, id) == [p EXCEPT ![id] = [owner |-> w, idle |-> 0]]

\* XACK: removes the id from the pending list; a no-op when it is not pending
XAck(p, id) == [x \in (DOMAIN p) \ {id} |-> p[x]]

\* a group that hands out nothing new while one of its entries is pending
HasNewUnlessPending == cursor < Len(stream) /\ pel = <<>>
\* XREADGROUP <group> <consumer> STREAMS <stream> ">" COUNT 1
HasNew == cursor < Len(stream)
Deliver(p, w, id) == [x \in (DOMAIN p) \cup {id} |->
                        IF x = id THEN [owner |-> w, idle |-> 0] ELSE p[x]]

\* a dead-letter entry that leaves the payload out
DlqEntryBare(message_id, message_data, error) ==
    [original_message_id |-> message_id,
     original_stream |-> "stream_name",
     error |-> error,
     failed_at |-> "utcnow",
     retry_count |-> get_retry_count(message_data)]
\* BaseWorker.send_to_dead_letter_queue: dlq_data with its five fields, then
\* 'dlq_data[f"original_{key}"] = value' for every pair of the payload
DlqEntry(message_id, message_data, error) ==
    LET dlq_data == [original_message_id |-> message_id,
                     original_stream |-> "stream_name",
                     error |-> error,
                     failed_at |-> "utcnow",
                     retry_count |-> get_retry_count(message_data)]
        original(key) == "original_" \o key
    IN [f \in (DOMAIN dlq_data) \cup {original(key) : key \in DOMAIN message_data} |->
          IF \E key \in DOMAIN message_data : f = original(key)
          THEN message_data[CHOOSE key \in DOMAIN message_data : f = original(key)]
          ELSE dlq_data[f]]

DlqCount(m) == Cardinality({i \in 1..Len(dlq) : dlq[i].original_message_id = m})

\* ============================================ session store (Redis hashes)
\* HSET key mapping=...: only the named fields are overwritten
Patch(r, p) == [k \in DOMAIN r |-> IF k \in DOMAIN p THEN p[k] ELSE r[k]]
\* RedisClient.set_session_status: the HSET and then "expire(key, expire_seconds)";
\* ttl says whether the key has an expiry (a key made by HSET alone has none)
set_session_status(store, s, status_data) ==
    [store EXCEPT ![s] = [Patch(@, status_data) EXCEPT !.ttl = TRUE]]
\* a write that replaces the hash by the named fields
update_session_status_replacing(store, s, updates) ==
    [store EXCEPT ![s] = Patch(NoSession, updates)]
\* RedisClient.update_session_status
update_session_status(store, s, updates) == [store EXCEPT ![s] = Patch(@, updates)]

\* ===================================================== environment steps
\* a producer appends a message to the topic (RedisClient.add_to_stream),
\* as long as the topic holds fewer than n
ProduceUpTo(n) ==
    /\ Len(stream) < n
    /\ stream' = XAdd(stream, [session_id |-> Len(stream) + 1,
                               type |-> "auto_medical_extraction"])
    /\ UNCHANGED <<callVars, loopVars, txVars, cursor, pel, dlq, workerVars, ghostVars>>

Produce == ProduceUpTo(MaxProduced)

\* a producer appends a message that already carries a retry_count, as a
\* stream entry would if a retry had been written back to the topic
\* (RedisClient.add_to_stream; get_retry_count reads the field from the entry)
ProduceRetried(retry_count) ==
    /\ Len(stream) < MaxProduced
    /\ stream' = XAdd(stream, [session_id |-> Len(stream) + 1,
                               type |-> "auto_medical_extraction",
                               retry_count |-> retry_count])
    /\ UNCHANGED <<callVars, loopVars, txVars, cursor, pel, dlq, workerVars, ghostVars>>

\* time passes: every pending entry's idle time grows
Tick ==
    /\ \E id \in DOMAIN pel : pel[id].idle < MaxIdleMs
    /\ pel' = [id \in DOMAIN pel |->
                 [pel[id] EXCEPT !.idle = IF @ + TickMs > MaxIdleMs
                                          THEN MaxIdleMs ELSE @ + TickMs]]
    /\ UNCHANGED <<callVars, loopVars, txVars, stream, cursor, dlq, workerVars, ghostVars>>

\* BaseWorker.signal_handler: SIGINT/SIGTERM.  run() reads self.running only
\* in its "while" condition, so a signal that arrives earlier acts as one
\* delivered when the worker is back at that condition.
Signal(w) ==
    /\ pc[w] = "loop"
    /\ running[w]
    /\ running' = [running EXCEPT ![w] = FALSE]
    /\ UNCHANGED <<callVars, loopVars, txVars, streamVars, pc, scan, claimed, cur, starts, ghostVars>>

\* signal_handler while run() is not at its "while" condition: in the
\* recovery pass or inside the handling of a message
SignalBusy(w) ==
    /\ pc[w] \notin {"down", "loop"}
    /\ running[w]
    /\ running' = [running EXCEPT ![w] = FALSE]
    /\ UNCHANGED <<callVars, loopVars, txVars, streamVars, pc, scan, claimed, cur, starts,
                   ghostVars>>

\* the worker is inside process_message
InHandler(w) == pc[w] \in {"handle", "recover_handle", "direct2", "direct3",
                           "chunk2", "chunk3", "chunk4"}

\* the worker process dies (kill -9, OOM, power loss): its locals are lost
Crash(w) ==
    /\ pc[w] # "down"
    /\ pc' = [pc EXCEPT ![w] = "down"]
    /\ running' = [running EXCEPT ![w] = FALSE]
    /\ scan' = [scan EXCEPT ![w] = <<>>]
    /\ claimed' = [claimed EXCEPT ![w] = <<>>]
    /\ cur' = [cur EXCEPT ![w] = NoMsg]
    /\ hres' = [hres EXCEPT ![w] = "none"]
    /\ orphaned' = IF InHandler(w)
                   THEN [orphaned EXCEPT ![cur[w].id] = dispatched[cur[w].id]]
                   ELSE orphaned
    /\ ck' = [ck EXCEPT ![w] = CkOff]
    /\ consecutive_errors' = [consecutive_errors EXCEPT ![w] = 0]
    /\ infra_errors' = [infra_errors EXCEPT ![w] = 0]
    /\ UNCHANGED <<callVars, exit_code, streamVars, starts, sess, sfiles, medq, apc,
                   chunkStatus, finals, dispatched, failed, succeeded, reclaims, acked>>

\* ===================================================== BaseWorker.run
\* run(): check_dependencies, ensure_consumer_group_exists, then recovery
BaseStartUpTo(w, n) ==
    /\ pc[w] = "down"
    /\ starts < n
    /\ pc' = [pc EXCEPT ![w] = "recover_scan"]
    /\ running' = [running EXCEPT ![w] = TRUE]
    /\ starts' = starts + 1
    /\ consecutive_errors' = [consecutive_errors EXCEPT ![w] = 0]
    /\ exit_code' = [exit_code EXCEPT ![w] = "none"]
    /\ infra_errors' = [infra_errors EXCEPT ![w] = 0]
    /\ UNCHANGED <<callVars, txVars, streamVars, scan, claimed, cur, ghostVars>>

\* a loop that never looks at self.running
LoopConditionIgnored(w) == TRUE
\* run(): "while self.running"
LoopCondition(w) == running[w]

BaseStart(w) == BaseStartUpTo(w, MaxStarts)

\* where run() continues once the recovery pass has nothing left to do
AfterRecover(rest) == IF rest = <<>> THEN "loop" ELSE "recover_proc"

\* claim_old_messages: the xpending_range call
BaseRecoverScan(w) ==
    /\ pc[w] = "recover_scan"
    /\ scan' = [scan EXCEPT ![w] = XPendingRange]
    /\ pc' = [pc EXCEPT ![w] = IF XPendingRange = <<>> THEN "loop" ELSE "recover_claim"]
    /\ UNCHANGED <<callVars, loopVars, txVars, streamVars, running, claimed, cur, starts, ghostVars>>

\* claim_old_messages: one iteration of "for msg in pending"
BaseRecoverClaim(w) ==
    /\ pc[w] = "recover_claim"
    /\ LET msg == Head(scan[w])
           rest == Tail(scan[w])
           won == msg.idle > StuckIdleMs /\ XClaimOk(msg.id, StuckIdleMs)
           got == IF won
                  THEN Append(claimed[w], [id |-> msg.id, fields |-> stream[msg.id]])
                  ELSE claimed[w]
       IN /\ pel' = IF won THEN XClaim(pel, w, msg.id) ELSE pel
          /\ claimed' = [claimed EXCEPT ![w] = got]
          /\ scan' = [scan EXCEPT ![w] = rest]
          /\ pc' = [pc EXCEPT ![w] = IF rest = <<>> THEN AfterRecover(got)
                                     ELSE "recover_claim"]
    /\ UNCHANGED <<callVars, loopVars, txVars, stream, cursor, dlq, running, cur, starts, ghostVars>>

\* recover_stuck_messages: one iteration of "for message_id, fields in
\* stuck_messages" up to the call of process_message
BaseRecoverNext(w) ==
    /\ pc[w] = "recover_proc"
    /\ LET msg == Head(claimed[w])
           rest == Tail(claimed[w])
           retry_count == get_retry_count(msg.fields)
       IN /\ claimed' = [claimed EXCEPT ![w] = rest]
          /\ IF retry_count >= MaxRetries
             THEN /\ dlq' = Append(dlq, DlqEntry(msg.id, msg.fields, "Max retries exceeded"))
                  /\ pel' = XAck(pel, msg.id)
                  /\ acked' = acked \cup {msg.id}
                  /\ pc' = [pc EXCEPT ![w] = AfterRecover(rest)]
                  /\ UNCHANGED <<cur, dispatched, reclaims>>
             ELSE /\ cur' = [cur EXCEPT ![w] =
                               [id |-> msg.id, fields |-> increment_retry_count(msg.fields)]]
                  /\ dispatched' = [dispatched EXCEPT ![msg.id] = @ + 1]
                  /\ reclaims' = [reclaims EXCEPT ![msg.id] = @ + 1]
                  /\ pc' = [pc EXCEPT ![w] = "recover_handle"]
                  /\ UNCHANGED <<dlq, pel, acked>>
    /\ UNCHANGED <<callVars, loopVars, txVars, stream, cursor, running, scan, starts, failed, succeeded,
                   orphaned>>

\* run(): one pass of "while self.running" that reads a message, up to the
\* call of process_message (an empty read changes nothing)
BaseLoopRead(w) ==
    /\ pc[w] = "loop"
    /\ LoopCondition(w)
    /\ HasNew
    /\ LET message_id == cursor + 1
           fields == stream[message_id]
           retry_count == get_retry_count(fields)
       IN /\ cursor' = message_id
          /\ IF retry_count >= MaxRetries
             THEN /\ dlq' = Append(dlq, DlqEntry(message_id, fields, "Max retries exceeded"))
                  /\ acked' = acked \cup {message_id}
                  /\ UNCHANGED <<pel, cur, dispatched, pc>>
             ELSE /\ pel' = Deliver(pel, w, message_id)
                  /\ cur' = [cur EXCEPT ![w] =
                               [id |-> message_id,
                                fields |-> IF retry_count > 0
                                           THEN increment_retry_count(fields)
                                           ELSE fields]]
                  /\ dispatched' = [dispatched EXCEPT ![message_id] = @ + 1]
                  /\ pc' = [pc EXCEPT ![w] = "handle"]
                  /\ UNCHANGED <<dlq, acked>>
    /\ infra_errors' = [infra_errors EXCEPT ![w] = 0]
    /\ UNCHANGED <<callVars, consecutive_errors, exit_code, txVars, stream, running, scan,
                   claimed, starts, failed, succeeded, reclaims, orphaned>>

\* process_message returns (True / False) or raises; run() and
\* recover_stuck_messages acknowledge on True only.  In run() a success
\* resets consecutive_errors and an exception calls handle_message_error
\* (status error) and counts; recover_stuck_messages only logs it.
BaseHandlerReturn(w, res) ==
    /\ pc[w] \in {"handle", "recover_handle"}
    /\ LET message_id == cur[w].id
       IN IF res = "ok"
          THEN /\ pel' = XAck(pel, message_id)
               /\ acked' = IF message_id \in DOMAIN pel
                           THEN acked \cup {message_id} ELSE acked
               /\ succeeded' = succeeded \cup {message_id}
               /\ UNCHANGED failed
          ELSE /\ failed' = [failed EXCEPT ![message_id] = @ + 1]
               /\ UNCHANGED <<pel, acked, succeeded>>
    /\ consecutive_errors' =
          IF pc[w] = "handle" /\ res = "ok"
          THEN [consecutive_errors EXCEPT ![w] = 0]
          ELSE IF pc[w] = "handle" /\ res = "raise"
          THEN [consecutive_errors EXCEPT ![w] = @ + 1]
          ELSE consecutive_errors
    /\ sess' = IF pc[w] = "handle" /\ res = "raise"
                  /\ cur[w].fields["session_id"] \in Sessions
               THEN update_session_status(sess, cur[w].fields["session_id"],
                                          [status |-> "error", error |-> TRUE])
               ELSE sess
    /\ pc' = [pc EXCEPT ![w] = IF pc[w] = "handle" THEN "loop"
                               ELSE AfterRecover(claimed[w])]
    /\ cur' = [cur EXCEPT ![w] = NoMsg]
    /\ UNCHANGED <<callVars, exit_code, infra_errors, hres, sfiles, medq, apc, chunkVars,
                   stream, cursor, dlq, running, scan, claimed, starts,
                   dispatched, reclaims, orphaned>>

\* run(): a read that returns nothing: "if not messages:
\* consecutive_errors = 0; continue"
BaseLoopReadEmpty(w) ==
    /\ pc[w] = "loop"
    /\ LoopCondition(w)
    /\ ~HasNew
    /\ consecutive_errors' = [consecutive_errors EXCEPT ![w] = 0]
    /\ infra_errors' = [infra_errors EXCEPT ![w] = 0]
    /\ UNCHANGED <<callVars, exit_code, txVars, streamVars, workerVars, ghostVars>>

\* run(): the stream read fails (connection lost, timeout): read_stream
\* catches the exception and returns [], which run() takes for an empty read
BaseLoopReadError(w) ==
    /\ pc[w] = "loop"
    /\ LoopCondition(w)
    /\ infra_errors[w] < MaxInfraErrors
    /\ consecutive_errors' = [consecutive_errors EXCEPT ![w] = 0]
    /\ infra_errors' = [infra_errors EXCEPT ![w] = @ + 1]
    /\ UNCHANGED <<callVars, exit_code, txVars, streamVars, workerVars, ghostVars>>

\* run(): an exception reaches the loop's own "except Exception":
\* consecutive_errors += 1, break at max_consecutive_errors (and "return 0"),
\* otherwise sleep and go on
BaseLoopError(w) ==
    /\ pc[w] = "loop"
    /\ LoopCondition(w)
    /\ infra_errors[w] < MaxInfraErrors
    /\ consecutive_errors' = [consecutive_errors EXCEPT ![w] = @ + 1]
    /\ infra_errors' = [infra_errors EXCEPT ![w] = @ + 1]
    /\ IF consecutive_errors[w] + 1 >= MaxConsecutiveErrors
       THEN /\ pc' = [pc EXCEPT ![w] = "down"]
            /\ exit_code' = [exit_code EXCEPT ![w] = "0"]
       ELSE UNCHANGED <<pc, exit_code>>
    /\ UNCHANGED <<callVars, txVars, streamVars, running, scan, claimed, cur, starts,
                   ghostVars>>

\* run(): "while self.running" is false, the worker returns
BaseLoopExit(w) ==
    /\ pc[w] = "loop"
    /\ ~LoopCondition(w)
    /\ pc' = [pc EXCEPT ![w] = "down"]
    /\ exit_code' = [exit_code EXCEPT ![w] = "0"]
    /\ UNCHANGED <<callVars, consecutive_errors, infra_errors, txVars, streamVars, running,
                   scan, claimed, cur, starts, ghostVars>>

\* ===================================================== key expiry (Redis)
\* the expiry of a session_status:<id> key passes: the key is gone.  Expiry
\* times are hours (SESSION_EXPIRE_TIME), an ingest request takes seconds:
\* no key expires while the request that made it is being served
ExpireSession(s) ==
    /\ apc.pc = "idle"
    /\ sess[s].status # "none"
    /\ sess[s].ttl
    /\ sess' = [sess EXCEPT ![s] = NoSession]
    /\ UNCHANGED <<callVars, loopVars, streamVars, workerVars, ghostVars, hres, sfiles, medq, apc,
                   chunkVars>>

\* the expiry of a chunk_status:<chunk_id> key passes: the key is gone
ExpireChunk(c) ==
    /\ apc.pc = "idle"
    /\ chunkStatus[c].status # "none"
    /\ chunkStatus[c].ttl
    /\ chunkStatus' = [chunkStatus EXCEPT ![c] = NoChunk]
    /\ UNCHANGED <<callVars, loopVars, streamVars, workerVars, ghostVars, hres, sess, sfiles, medq,
                   apc, ck, finals>>

\* ======================================= RedisCleanup (redis_cleanup.py)
\* cleanup_stuck_sessions: every session hash in status processing is set
\* to queued
ResetStuck(store) ==
    [s \in DOMAIN store |->
        IF store[s].status = "processing" THEN Patch(store[s], [status |-> "queued"])
        ELSE store[s]]

\* cleanup_all: cleanup_pending_messages acknowledges every pending entry,
\* cleanup_stuck_sessions resets the sessions, cleanup_consumer_groups
\* destroys the group and creates it again with id="0", so that its
\* last-delivered id is back at the start of the topic
CleanupAll ==
    /\ \A m \in MsgIds : dispatched[m] <= MaxRedeliveries
    /\ acked' = acked \cup DOMAIN pel
    /\ pel' = <<>>
    /\ cursor' = 0
    /\ sess' = ResetStuck(sess)
    /\ UNCHANGED <<callVars, loopVars, chunkVars, stream, dlq, workerVars, hres, sfiles, medq, apc,
                   dispatched, failed, succeeded, reclaims, orphaned>>

\* ================================= streaming ingest (AudioHandler, API side)
ApiIdle == [pc |-> "idle", sid |-> 0, i |-> 0]

\* initialize_streaming_session: creates streaming_<id>/ and the session
\* record in status recording
StreamInit(s) ==
    /\ apc = ApiIdle
    /\ sess[s].status = "none"
    /\ sfiles' = [sfiles EXCEPT ![s].dir = TRUE]
    /\ sess' = set_session_status(sess, s,
                  [status |-> "recording", mode |-> "streaming",
                   received |-> 0, last |-> FALSE])
    /\ UNCHANGED <<callVars, loopVars, chunkVars, streamVars, workerVars, ghostVars, hres, medq, apc>>

\* a chunk upload that finalizes whatever its flag says
processing_triggered_always(is_last_chunk) == TRUE
\* save_streaming_chunk: "if is_last_chunk": _finalize_streaming_session runs
processing_triggered(is_last_chunk) == is_last_chunk

\* save_streaming_chunk up to "if is_last_chunk": the chunk file is written
\* into the streaming directory (the open fails once the directory is gone)
\* and chunks_received / last_chunk_received are updated
SaveChunk(s, chunk_sequence, is_last_chunk) ==
    /\ apc = ApiIdle
    /\ sess[s].status # "none"
    /\ sess[s].mode = "streaming"
    /\ sfiles[s].dir
    /\ sfiles' = [sfiles EXCEPT ![s].chunks = @ \cup {chunk_sequence}]
    /\ sess' = update_session_status(sess, s,
                  [received |-> chunk_sequence + 1, last |-> is_last_chunk])
    /\ apc' = IF processing_triggered(is_last_chunk)
              THEN [ApiIdle EXCEPT !.pc = "finalize", !.sid = s]
              ELSE ApiIdle
    /\ UNCHANGED <<callVars, loopVars, chunkVars, streamVars, workerVars, ghostVars, hres, medq>>

\* _finalize_streaming_session up to the first update_session_status:
\* _merge_streaming_chunks concatenates the chunk files present, removes them
\* and the directory, then status becomes processing (streaming_merged).
\* A failed merge returns False and leaves everything as it was.
FinalizeMerge(merge_ok) ==
    /\ apc.pc = "finalize"
    /\ LET s == apc.sid
       IN IF merge_ok /\ sess[s].status # "none" /\ sfiles[s].dir
          THEN /\ sfiles' = [sfiles EXCEPT ![s] =
                               [dir |-> FALSE, chunks |-> {}, merged |-> sfiles[s].chunks]]
               /\ sess' = update_session_status(sess, s,
                             [status |-> "processing", strategy |-> "streaming_merged"])
               /\ apc' = [apc EXCEPT !.pc = "queue_add"]
          ELSE /\ apc' = ApiIdle
               /\ UNCHANGED <<sfiles, sess>>
    /\ UNCHANGED <<callVars, loopVars, chunkVars, streamVars, workerVars, ghostVars, hres, medq>>

\* queue_for_processing: add_to_stream(AUDIO_INPUT_STREAM, audio_data)
QueueAdd ==
    /\ apc.pc = "queue_add"
    /\ stream' = XAdd(stream, [session_id |-> apc.sid, type |-> "direct_processing"])
    /\ apc' = [apc EXCEPT !.pc = "queue_set"]
    /\ UNCHANGED <<callVars, loopVars, chunkVars, cursor, pel, dlq, workerVars, ghostVars, hres, sess, sfiles, medq>>

\* queue_for_processing: set_session_status(session_id, {"status": "queued", ...})
QueueSet ==
    /\ apc.pc = "queue_set"
    /\ sess' = set_session_status(sess, apc.sid, [status |-> "queued"])
    /\ apc' = [apc EXCEPT !.pc = "queue_upd"]
    /\ UNCHANGED <<callVars, loopVars, chunkVars, streamVars, workerVars, ghostVars, hres, sfiles, medq>>

\* _finalize_streaming_session: the closing update (stream_id,
\* queued_for_transcription_at); no modelled field changes
QueueUpd ==
    /\ apc.pc = "queue_upd"
    /\ apc' = ApiIdle
    /\ UNCHANGED <<callVars, loopVars, chunkVars, streamVars, workerVars, ghostVars, hres, sess, sfiles, medq>>

\* ======================================== FixedTranscriptionWorker.run
\* run(): check_dependencies, start_completion_checker for a chunk worker,
\* then cleanup_consumer_group
TxStart(w, worker_type) ==
    /\ pc[w] = "down"
    /\ starts < (IF worker_type = "chunk" THEN MaxChunkStarts ELSE MaxStarts)
    /\ pc' = [pc EXCEPT ![w] = "cleanup_scan"]
    /\ running' = [running EXCEPT ![w] = TRUE]
    /\ starts' = starts + 1
    /\ ck' = [ck EXCEPT ![w] = IF worker_type = "chunk" THEN CkIdle ELSE CkOff]
    /\ consecutive_errors' = [consecutive_errors EXCEPT ![w] = 0]
    /\ exit_code' = [exit_code EXCEPT ![w] = "none"]
    /\ infra_errors' = [infra_errors EXCEPT ![w] = 0]
    /\ UNCHANGED <<callVars, streamVars, scan, claimed, cur, ghostVars,
                   hres, sess, sfiles, medq, apc, chunkStatus, finals>>

AfterCleanup(rest) == IF rest = <<>> THEN "loop" ELSE "cleanup_claim"

\* cleanup_consumer_group: the xpending_range call
TxCleanupScan(w) ==
    /\ pc[w] = "cleanup_scan"
    /\ scan' = [scan EXCEPT ![w] = XPendingRange]
    /\ pc' = [pc EXCEPT ![w] = AfterCleanup(XPendingRange)]
    /\ UNCHANGED <<callVars, loopVars, streamVars, running, claimed, cur, starts, ghostVars, txVars>>

\* cleanup_consumer_group: xclaim(min_idle_time=0) of the next pending id
TxCleanupClaim(w) ==
    /\ pc[w] = "cleanup_claim"
    /\ LET msg == Head(scan[w])
           rest == Tail(scan[w])
       IN IF XClaimOk(msg.id, CleanupIdleMs)
          THEN /\ pel' = XClaim(pel, w, msg.id)
               /\ cur' = [cur EXCEPT ![w] = [id |-> msg.id, fields |-> stream[msg.id]]]
               /\ pc' = [pc EXCEPT ![w] = "cleanup_ack"]
               /\ UNCHANGED scan
          ELSE /\ scan' = [scan EXCEPT ![w] = rest]
               /\ pc' = [pc EXCEPT ![w] = AfterCleanup(rest)]
               /\ UNCHANGED <<pel, cur>>
    /\ UNCHANGED <<callVars, loopVars, stream, cursor, dlq, running, claimed, starts, ghostVars, txVars>>

\* cleanup_consumer_group: "if claimed: acknowledge_message(...)"
TxCleanupAck(w) ==
    /\ pc[w] = "cleanup_ack"
    /\ pel' = XAck(pel, cur[w].id)
    /\ acked' = IF cur[w].id \in DOMAIN pel THEN acked \cup {cur[w].id} ELSE acked
    /\ cur' = [cur EXCEPT ![w] = NoMsg]
    /\ scan' = [scan EXCEPT ![w] = Tail(@)]
    /\ pc' = [pc EXCEPT ![w] = AfterCleanup(Tail(scan[w]))]
    /\ UNCHANGED <<callVars, loopVars, stream, cursor, dlq, running, claimed, starts, txVars,
                   dispatched, failed, succeeded, reclaims, orphaned>>

\* run(): one pass of "while self.running" that reads a message and calls
\* process_message (an empty read changes nothing)
TxLoopRead(w) ==
    /\ pc[w] = "loop"
    /\ running[w]
    /\ HasNew
    /\ LET message_id == cursor + 1
       IN /\ cursor' = message_id
          /\ pel' = Deliver(pel, w, message_id)
          /\ cur' = [cur EXCEPT ![w] = [id |-> message_id, fields |-> stream[message_id]]]
          /\ dispatched' = [dispatched EXCEPT ![message_id] = @ + 1]
          /\ pc' = [pc EXCEPT ![w] = "handle"]
    /\ UNCHANGED <<callVars, loopVars, stream, dlq, running, scan, claimed, starts, txVars,
                   failed, succeeded, reclaims, acked, orphaned>>

\* process_message returned: what run() records before acknowledging
Returned(w, ok) ==
    /\ hres' = [hres EXCEPT ![w] = IF ok THEN "ok" ELSE "fail"]
    /\ succeeded' = IF ok THEN succeeded \cup {cur[w].id} ELSE succeeded
    /\ failed' = IF ok THEN failed ELSE [failed EXCEPT ![cur[w].id] = @ + 1]
    /\ pc' = [pc EXCEPT ![w] = "ack"]

\* _process_direct_message: update_session_status(status processing,
\* step analyzing_audio)
DirectBegin(w) ==
    /\ pc[w] = "handle"
    /\ cur[w].fields["type"] = "direct_processing"
    /\ sess' = update_session_status(sess, cur[w].fields["session_id"],
                                     [status |-> "processing"])
    /\ pc' = [pc EXCEPT ![w] = "direct2"]
    /\ UNCHANGED <<callVars, loopVars, chunkVars, streamVars, running, scan, claimed, cur, starts, ghostVars,
                   hres, sfiles, medq, apc>>

\* _process_direct_message from the file checks to the final status write:
\* outcome "completed" with a transcript of more than 10 characters ("long")
\* or not ("short"), or "error" (file missing or empty, transcription failed)
DirectFinish(w, outcome, text) ==
    /\ pc[w] = "direct2"
    /\ LET s == cur[w].fields["session_id"]
       IN IF outcome = "completed"
          THEN /\ sess' = update_session_status(sess, s,
                             [status |-> "completed", transcript |-> text])
               /\ IF text = "long"
                  THEN /\ pc' = [pc EXCEPT ![w] = "direct3"]
                       /\ UNCHANGED <<hres, succeeded, failed>>
                  ELSE Returned(w, TRUE)
          ELSE /\ sess' = update_session_status(sess, s,
                             [status |-> "error", error |-> TRUE])
               /\ Returned(w, FALSE)
    /\ UNCHANGED <<callVars, loopVars, chunkVars, streamVars, running, scan, claimed, cur, starts,
                   dispatched, reclaims, acked, orphaned, sfiles, medq, apc>>

\* auto_queue_medical_extraction: add_to_stream("medical_extraction_queue")
\* and the medical_extraction_queued update; the handler then returns True
DirectQueueMedical(w) ==
    /\ pc[w] = "direct3"
    /\ LET s == cur[w].fields["session_id"]
       IN /\ medq' = XAdd(medq, [session_id |-> s, type |-> "auto_medical_extraction"])
          /\ sess' = update_session_status(sess, s, [medq |-> TRUE])
    /\ Returned(w, TRUE)
    /\ UNCHANGED <<callVars, loopVars, chunkVars, streamVars, running, scan, claimed, cur, starts,
                   dispatched, reclaims, acked, orphaned, sfiles, apc>>

\* run(): "Always acknowledge the message regardless of success"
TxAck(w) ==
    /\ pc[w] = "ack"
    /\ pel' = XAck(pel, cur[w].id)
    /\ acked' = IF cur[w].id \in DOMAIN pel THEN acked \cup {cur[w].id} ELSE acked
    /\ cur' = [cur EXCEPT ![w] = NoMsg]
    /\ hres' = [hres EXCEPT ![w] = "none"]
    /\ pc' = [pc EXCEPT ![w] = "loop"]
    /\ UNCHANGED <<callVars, loopVars, chunkVars, stream, cursor, dlq, running, scan, claimed, starts,
                   dispatched, failed, succeeded, reclaims, orphaned,
                   sess, sfiles, medq, apc>>

\* run(): "while self.running" is false, the worker returns; its finally
\* clause stops the completion checker
TxLoopExit(w) ==
    /\ pc[w] = "loop"
    /\ ~running[w]
    /\ pc' = [pc EXCEPT ![w] = "down"]
    /\ ck' = [ck EXCEPT ![w] = CkOff]
    /\ exit_code' = [exit_code EXCEPT ![w] = "0"]
    /\ UNCHANGED <<callVars, consecutive_errors, infra_errors, streamVars, running, scan,
                   claimed, cur, starts, ghostVars,
                   hres, sess, sfiles, medq, apc, chunkStatus, finals>>

\* ================================== chunked ingest (AudioHandler, API side)
\* the results create_chunks can return: the chunk indices whose ffmpeg call
\* succeeded and that are not shorter than 5 s; an empty list raises
ChunkLists == (SUBSET (0..(MaxChunks - 1))) \ {{}}

\* a total taken from the last chunk's chunk_index instead of the list length
total_chunks_last_index(chunks_info) ==
    CHOOSE i \in chunks_info : \A j \in chunks_info : j <= i
\* _process_chunked_audio: "total_chunks": len(chunks_info)
total_chunks(chunks_info) == Cardinality(chunks_info)

\* _process_chunked_audio up to set_session_status: status
\* chunking_completed, processing_strategy chunked, total_chunks, chunks_info
ChunkedUpload(s, chunks_info) ==
    /\ apc = ApiIdle
    /\ sess[s].status = "none"
    /\ sfiles[s].upload = "none"
    /\ Len(stream) + Cardinality(chunks_info) <= MaxQueued
    /\ sfiles' = [sfiles EXCEPT ![s].upload = "chunked"]
    /\ sess' = set_session_status(sess, s,
                  [status |-> "chunking_completed", strategy |-> "chunked",
                   total |-> total_chunks(chunks_info), chunks_info |-> chunks_info])
    /\ apc' = [pc |-> "chunk_add", sid |-> s, i |-> Min(chunks_info)]
    /\ UNCHANGED <<callVars, loopVars, streamVars, workerVars, ghostVars, hres, medq, chunkVars>>

\* save_uploaded_file routes the saved file to _process_direct_audio, whose
\* call queue_for_processing(session_id, filename, merged_file_path, ...)
\* names a variable the function does not have: the NameError is logged and
\* raised again before anything is queued or stored
DirectUpload(s) ==
    /\ apc = ApiIdle
    /\ sess[s].status = "none"
    /\ sfiles[s].upload = "none"
    /\ sfiles' = [sfiles EXCEPT ![s].upload = "direct"]
    /\ UNCHANGED <<callVars, loopVars, streamVars, workerVars, ghostVars, hres, sess, medq, apc,
                   chunkVars>>

\* _queue_chunks_for_processing: add_to_stream(chunk_stream, chunk_data)
ChunkQueueAdd ==
    /\ apc.pc = "chunk_add"
    /\ stream' = XAdd(stream, [session_id |-> apc.sid, type |-> "chunk_processing",
                               chunk_index |-> apc.i])
    /\ apc' = [apc EXCEPT !.pc = "chunk_set"]
    /\ UNCHANGED <<callVars, loopVars, cursor, pel, dlq, workerVars, ghostVars, hres, sess, sfiles, medq,
                   chunkVars>>

\* _queue_chunks_for_processing: hset(chunk_status_key, status queued) with
\* its expire, and the step to the next element of chunks_info
ChunkQueueSet ==
    /\ apc.pc = "chunk_set"
    /\ chunkStatus' = [chunkStatus EXCEPT ![<<apc.sid, apc.i>>].status = "queued",
                                          ![<<apc.sid, apc.i>>].ttl = TRUE]
    /\ LET rest == {j \in sess[apc.sid].chunks_info : j > apc.i}
       IN apc' = IF rest = {} THEN [apc EXCEPT !.pc = "chunk_done"]
                 ELSE [apc EXCEPT !.pc = "chunk_add", !.i = Min(rest)]
    /\ UNCHANGED <<callVars, loopVars, streamVars, workerVars, ghostVars, hres, sess, sfiles, medq,
                   ck, finals>>

\* _process_chunked_audio: update_session_status(status processing)
ChunkQueueDone ==
    /\ apc.pc = "chunk_done"
    /\ sess' = update_session_status(sess, apc.sid, [status |-> "processing"])
    /\ apc' = ApiIdle
    /\ UNCHANGED <<callVars, loopVars, streamVars, workerVars, ghostVars, hres, sfiles, medq, chunkVars>>

\* ================================================== _process_chunk_message
ChunkOf(w) == <<cur[w].fields["session_id"], cur[w].fields["chunk_index"]>>

\* _process_chunk_message: hset(chunk_status_key, status processing)
ChunkBegin(w) ==
    /\ pc[w] = "handle"
    /\ cur[w].fields["type"] = "chunk_processing"
    /\ chunkStatus' = [chunkStatus EXCEPT ![ChunkOf(w)].status = "processing"]
    /\ pc' = [pc EXCEPT ![w] = "chunk2"]
    /\ UNCHANGED <<callVars, loopVars, streamVars, running, scan, claimed, cur, starts, ghostVars,
                   hres, sess, sfiles, medq, apc, ck, finals>>

\* _process_chunk_message from the file check to the chunk's final hset:
\* status completed with the transcript, or status error
ChunkFinish(w, outcome, text) ==
    /\ pc[w] = "chunk2"
    /\ IF outcome = "completed"
       THEN /\ chunkStatus' = [chunkStatus EXCEPT ![ChunkOf(w)].status = "completed",
                                              ![ChunkOf(w)].text = text]
            /\ pc' = [pc EXCEPT ![w] = "chunk3"]
            /\ UNCHANGED <<hres, succeeded, failed>>
       ELSE /\ chunkStatus' = [chunkStatus EXCEPT ![ChunkOf(w)].status = "error"]
            /\ Returned(w, FALSE)
    /\ UNCHANGED <<callVars, loopVars, streamVars, running, scan, claimed, cur, starts,
                   dispatched, reclaims, acked, orphaned,
                   sess, sfiles, medq, apc, ck, finals>>

\* _check_and_queue_chunked_medical_extraction: get_session_status and the
\* tests on what it returned; "return True" when nothing is to be queued
ChunkCheckMedical(w) ==
    /\ pc[w] = "chunk3"
    /\ LET s == cur[w].fields["session_id"]
           session_data == sess[s]
       IN IF /\ session_data.status = "completed"
             /\ session_data.strategy = "chunked"
             /\ ~session_data.medq
             /\ session_data.transcript = "long"
          THEN /\ pc' = [pc EXCEPT ![w] = "chunk4"]
               /\ UNCHANGED <<hres, succeeded, failed>>
          ELSE Returned(w, TRUE)
    /\ UNCHANGED <<callVars, loopVars, streamVars, running, scan, claimed, cur, starts,
                   dispatched, reclaims, acked, orphaned, sess, sfiles, medq, apc, chunkVars>>

\* _check_and_queue_chunked_medical_extraction: the call of
\* auto_queue_medical_extraction on the session data read before, then
\* "return True"
ChunkQueueMedical(w) ==
    /\ pc[w] = "chunk4"
    /\ LET s == cur[w].fields["session_id"]
       IN /\ medq' = XAdd(medq, [session_id |-> s, type |-> "auto_medical_extraction"])
          /\ sess' = update_session_status(sess, s, [medq |-> TRUE])
    /\ Returned(w, TRUE)
    /\ UNCHANGED <<callVars, loopVars, streamVars, running, scan, claimed, cur, starts,
                   dispatched, reclaims, acked, orphaned, sfiles, apc, chunkVars>>

\* ============================ completion checker (check_chunked_completion)
\* _get_chunked_progress: the chunks of chunks_info whose hash has the status
ChunksIn(info, s, status) == {i \in info : chunkStatus[<<s, i>>].status = status}
completed_chunks(info, s) == Cardinality(ChunksIn(info, s, "completed"))
failed_chunks(info, s) == Cardinality(ChunksIn(info, s, "error"))

\* _completion_checker_loop: get_session_status of one session_status:* key;
\* a chunked session in status processing is handed to
\* check_chunked_completion (any other session changes nothing)
CkScan(w, s) ==
    /\ ck[w].pc = "idle"
    /\ sess[s].strategy = "chunked"
    /\ sess[s].status = "processing"
    /\ ck' = [ck EXCEPT ![w] = [CkIdle EXCEPT !.pc = "check", !.sid = s]]
    /\ UNCHANGED <<callVars, loopVars, streamVars, workerVars, ghostVars, hres, sess, sfiles, medq, apc,
                   chunkStatus, finals>>

\* a completion check that never finds chunks outstanding
still_processing_never(nCompleted, nFailed, total) == FALSE
\* check_chunked_completion: "if completed_chunks + failed_chunks < total_chunks"
still_processing(nCompleted, nFailed, total) == nCompleted + nFailed < total

\* check_chunked_completion: get_session_status (with _get_chunked_progress)
\* and the tests on it; returns False while chunks are outstanding.  The
\* hgetall calls of _get_chunked_progress are taken as one reading: a reading
\* spread over several steps either gives the counts of one of these
\* readings or finds chunks outstanding and returns without writing.
CkCheck(w) ==
    /\ ck[w].pc = "check"
    /\ LET s == ck[w].sid
           status_data == sess[s]
           info == status_data.chunks_info
           nCompleted == completed_chunks(info, s)
           nFailed == failed_chunks(info, s)
       IN ck' = [ck EXCEPT ![w] =
                  IF status_data.status = "none" \/ status_data.strategy # "chunked"
                     \/ still_processing(nCompleted, nFailed, status_data.total)
                  THEN CkIdle
                  ELSE [pc |-> IF nCompleted = 0 THEN "all_failed" ELSE "merge",
                        sid |-> s, total_chunks |-> status_data.total,
                        completed_chunks |-> nCompleted, failed_chunks |-> nFailed,
                        todo |-> info, chunk_results |-> {}]]
    /\ UNCHANGED <<callVars, loopVars, streamVars, workerVars, ghostVars, hres, sess, sfiles, medq, apc,
                   chunkStatus, finals>>

\* check_chunked_completion: "if completed_chunks == 0": status error
CkAllFailed(w) ==
    /\ ck[w].pc = "all_failed"
    /\ sess' = update_session_status(sess, ck[w].sid,
                                     [status |-> "error", error |-> TRUE])
    /\ finals' = [finals EXCEPT ![ck[w].sid] = @ + 1]
    /\ ck' = [ck EXCEPT ![w] = CkIdle]
    /\ UNCHANGED <<callVars, loopVars, streamVars, workerVars, ghostVars, hres, sfiles, medq, apc,
                   chunkStatus>>

\* _merge_chunk_results: hgetall of the next chunk of chunks_info; a
\* completed chunk is appended to chunk_results
CkMergeRead(w) ==
    /\ ck[w].pc = "merge"
    /\ LET s == ck[w].sid
           i == Min(ck[w].todo)
           rest == ck[w].todo \ {i}
           chunk_status == chunkStatus[<<s, i>>]
           results == IF chunk_status.status = "completed"
                      THEN ck[w].chunk_results \cup
                             {[chunk_index |-> i, transcript_text |-> chunk_status.text]}
                      ELSE ck[w].chunk_results
       IN ck' = [ck EXCEPT ![w].todo = rest, ![w].chunk_results = results,
                           ![w].pc = IF rest = {} THEN "write" ELSE "merge"]
    /\ UNCHANGED <<callVars, loopVars, streamVars, workerVars, ghostVars, hres, sess, sfiles, medq, apc,
                   chunkStatus, finals>>

\* merge_transcripts: the length class of the merged text.  The text
\* starts with the first chunk's transcript; _remove_overlap can shorten
\* later ones, and several short ones can add up to more than 10 characters.
MergedTexts(chunk_results) ==
    LET first == CHOOSE r \in chunk_results :
                    \A q \in chunk_results : r.chunk_index <= q.chunk_index
    IN IF first.transcript_text = "long" THEN {"long"}
       ELSE IF Cardinality(chunk_results) > 1 THEN {"short", "long"}
       ELSE {"short"}

\* check_chunked_completion after _merge_chunk_results: status completed with
\* the merged transcript (and the warning when chunks failed), or status
\* error when no completed chunk was found
CkWrite(w, text) ==
    /\ ck[w].pc = "write"
    /\ LET s == ck[w].sid
           chunk_results == ck[w].chunk_results
       IN IF chunk_results = {}
          THEN /\ text = "short"
               /\ sess' = update_session_status(sess, s,
                             [status |-> "error", error |-> TRUE])
               /\ ck' = [ck EXCEPT ![w] = CkIdle]
          ELSE /\ text \in MergedTexts(chunk_results)
               /\ sess' = update_session_status(sess, s,
                             [status |-> "completed", transcript |-> text,
                              parts |-> {r.chunk_index : r \in chunk_results},
                              warning |-> ck[w].failed_chunks])
               /\ ck' = [ck EXCEPT ![w].pc = "cleanup"]
    /\ finals' = [finals EXCEPT ![ck[w].sid] = @ + 1]
    /\ UNCHANGED <<callVars, loopVars, streamVars, workerVars, ghostVars, hres, sfiles, medq, apc,
                   chunkStatus>>

\* _cleanup_session_chunks: the chunk files and every
\* chunk_status:<session>_chunk_* key are deleted (keys and delete taken
\* together)
CkCleanup(w) ==
    /\ ck[w].pc = "cleanup"
    /\ chunkStatus' = [c \in ChunkIds |->
                          IF c[1] = ck[w].sid THEN NoChunk ELSE chunkStatus[c]]
    /\ ck' = [ck EXCEPT ![w] = CkIdle]
    /\ UNCHANGED <<callVars, loopVars, streamVars, workerVars, ghostVars, hres, sess, sfiles, medq, apc,
                   finals>>

\* ==================================================== AudioChunker: merge
\* A transcript is the sequence of its words (str.split()).  The transcripts
\* tried are the phrases a..a b..b, which overlap each other fully, partly
\* or not at all.
Rep(word, n) == [i \in 1..n |-> word]
Phrases == {Rep("a", i) \o Rep("b", j) : <<i, j>> \in
               {x \in (0..MaxWords) \X (0..MaxWords) : x[1] + x[2] <= MaxWords}}
Confidences == {8, 9}

\* _remove_overlap: "if len(prev_words) < 5 or len(curr_words) < 5"
MinOverlapWords == 5
\* _remove_overlap: "range(1, min(6, len(prev_words), len(curr_words)) + 1)"
OverlapScan == 6

\* prev_words[-i:] and curr_words[:i]
LastWords(words, i) == SubSeq(words, Len(words) - i + 1, Len(words))
FirstWords(words, i) == SubSeq(words, 1, i)

\* _remove_overlap: the overlap_size the loop ends with (the largest i tried
\* whose words match; 0 when none does)
overlap_size(prev_words, curr_words) ==
    LET tried == 1..Min({OverlapScan, Len(prev_words), Len(curr_words)})
        hits == {i \in tried : LastWords(prev_words, i) = FirstWords(curr_words, i)}
    IN IF hits = {} THEN 0 ELSE CHOOSE i \in hits : \A j \in hits : j <= i

\* _remove_overlap with the overlap put back in front of the current text
remove_overlap_keep(previous_text, current_text) ==
    IF Len(previous_text) < MinOverlapWords \/ Len(current_text) < MinOverlapWords
    THEN current_text
    ELSE FirstWords(current_text, overlap_size(previous_text, current_text))
            \o current_text
\* AudioChunker._remove_overlap
remove_overlap(previous_text, current_text) ==
    IF Len(previous_text) < MinOverlapWords \/ Len(current_text) < MinOverlapWords
    THEN current_text
    ELSE SubSeq(current_text, overlap_size(previous_text, current_text) + 1,
                Len(current_text))

\* sorted(...) of one more element: after every element whose key is not larger
RECURSIVE InsertByIndex(_, _)
InsertByIndex(chunk, sorted_chunks) ==
    IF sorted_chunks = <<>> THEN <<chunk>>
    ELSE IF Head(sorted_chunks).chunk_index <= chunk.chunk_index
         THEN <<Head(sorted_chunks)>> \o InsertByIndex(chunk, Tail(sorted_chunks))
         ELSE <<chunk>> \o sorted_chunks

\* the chunk results taken in the order they arrived
arrival_order(chunk_results) == chunk_results
\* merge_transcripts: sorted(chunk_results, key=chunk_index), a stable sort
RECURSIVE sorted_by_index(_)
sorted_by_index(chunk_results) ==
    IF chunk_results = <<>> THEN <<>>
    ELSE InsertByIndex(chunk_results[Len(chunk_results)],
                       sorted_by_index(SubSeq(chunk_results, 1, Len(chunk_results) - 1)))

\* A string is held as the sequence of its characters (one-character
\* strings); a word of it is the sequence of its characters.
\* str.strip()
RECURSIVE str_strip(_)
str_strip(text) ==
    IF text = <<>> THEN <<>>
    ELSE IF Head(text) = " " THEN str_strip(Tail(text))
    ELSE IF text[Len(text)] = " " THEN str_strip(SubSeq(text, 1, Len(text) - 1))
    ELSE text

\* str.split(): the maximal runs of characters that are not whitespace
RECURSIVE str_split(_)
str_split(text) ==
    IF text = <<>> THEN <<>>
    ELSE LET n == Len(text)
             before == str_split(SubSeq(text, 1, n - 1))
         IN  IF text[n] = " " THEN before
             ELSE IF n > 1 /\ text[n - 1] # " "
                  THEN [before EXCEPT ![Len(before)] = Append(@, text[n])]
                  ELSE Append(before, <<text[n]>>)

\* " ".join(words)
RECURSIVE str_join(_)
str_join(words) ==
    IF words = <<>> THEN <<>>
    ELSE IF Len(words) = 1 THEN Head(words)
    ELSE Head(words) \o <<" ">> \o str_join(Tail(words))

\* the characters of a word put together again
RECURSIVE word_of(_)
word_of(chars) == IF chars = <<>> THEN "" ELSE Head(chars) \o word_of(Tail(chars))

\* chunk.get("transcript_text", ""): the transcript of a chunk result as the
\* string it is, its words (one character each) separated by single spaces
transcript_string(transcript_text) ==
    str_join([k \in DOMAIN transcript_text |-> <<transcript_text[k]>>])

\* a merge that puts nothing between two chunk texts
separator_none(i, n) == <<>>
\* merge_transcripts: "if i < len(sorted_chunks) - 1: full_text += ' '"
\* (i counts from 1 here)
separator(i, n) == IF i < n THEN <<" ">> ELSE <<>>

\* merge_transcripts: the loop over sorted_chunks from position i on, with
\* the accumulators full_text, total_confidence, total_duration, total_words.
\* _remove_overlap splits both strings, and what it returns is the current
\* text itself or " ".join of the words it keeps, which is the same string
\* for a text whose words are separated by single spaces.
RECURSIVE MergeLoop(_, _, _)
MergeLoop(sorted_chunks, i, acc) ==
    IF i > Len(sorted_chunks) THEN acc
    ELSE LET chunk == sorted_chunks[i]
             stripped == str_strip(transcript_string(chunk.transcript_text))
             chunk_text == IF stripped # <<>> /\ i > 1 /\ acc.full_text # <<>>
                           THEN str_join(remove_overlap(str_split(acc.full_text),
                                                        str_split(stripped)))
                           ELSE stripped
         IN MergeLoop(sorted_chunks, i + 1,
                      [full_text |-> IF stripped # <<>>
                                     THEN acc.full_text \o chunk_text
                                            \o separator(i, Len(sorted_chunks))
                                     ELSE acc.full_text,
                       total_confidence |-> acc.total_confidence
                                              + chunk.transcript_confidence,
                       duration |-> acc.duration + chunk.duration,
                       words |-> acc.words + Len(str_split(chunk_text))])

\* AudioChunker.merge_transcripts; full_text is the 'text' of the result
\* (full_text.strip()) and text is the list of its words; the confidence
\* (total_confidence divided by the number of chunks, 0.0 for none) is kept
\* as that pair
merge_transcripts(chunk_results) ==
    LET sorted_chunks == sorted_by_index(chunk_results)
        acc == MergeLoop(sorted_chunks, 1,
                         [full_text |-> <<>>, total_confidence |-> 0,
                          duration |-> 0, words |-> 0])
        text == str_strip(acc.full_text)
    IN [fn |-> "merge_transcripts", status |-> "completed", full_text |-> text,
        text |-> [k \in DOMAIN str_split(text) |-> word_of(str_split(text)[k])],
        confidence |-> <<acc.total_confidence, Len(sorted_chunks)>>,
        duration |-> acc.duration, words |-> acc.words,
        chunks_processed |-> Len(sorted_chunks)]

\* chunk results as _merge_chunk_results builds them, in any arrival order
\* and with distinct chunk_index values
ChunkResults ==
    [chunk_index : 0..(MaxResults - 1), transcript_text : Phrases,
     transcript_confidence : Confidences, duration : {ChunkSeconds}]
ResultLists ==
    {q \in UNION {[1..n -> ChunkResults] : n \in 0..MaxResults} :
        \A i, j \in DOMAIN q : i # j => q[i].chunk_index # q[j].chunk_index}

\* one call merge_transcripts(chunk_results)
CallMerge ==
    /\ arg.fn = "merge_transcripts"
    /\ ret = NoCall
    /\ ret' = merge_transcripts(arg.chunk_results)
    /\ UNCHANGED <<loopVars, streamVars, workerVars, ghostVars, txVars, arg>>

\* ==================================================== AudioChunker: split
\* Durations are whole seconds here; ffprobe reports a float.
\* config.py:105  CHUNK_DURATION of the development configuration
DevChunkSeconds == 60
\* config.py:54  CHUNK_OVERLAP (seconds)
OverlapSeconds == 10
\* audio_chunker.py:24  chunk_duration: int = 120
DefaultChunkSeconds == 120
\* audio_chunker.py:24  overlap: int = 5
DefaultOverlapSeconds == 5
\* audio_chunker.py:116  "if (end_time - start_time) < 5: continue"
MinChunkSeconds == 5

\* <<chunk_duration, overlap>> of the production and development
\* configurations and of the constructor's defaults
ChunkerConfigs ==
    {<<ChunkSeconds, OverlapSeconds>>, <<DevChunkSeconds, OverlapSeconds>>,
     <<DefaultChunkSeconds, DefaultOverlapSeconds>>}

\* the number of whole steps that fit into the duration
planned_chunks_floor(duration, chunk_duration, overlap) ==
    duration \div (chunk_duration - overlap)
\* total_chunks = math.ceil(duration / (self.chunk_duration - self.overlap))
planned_chunks(duration, chunk_duration, overlap) ==
    (duration + (chunk_duration - overlap) - 1) \div (chunk_duration - overlap)

\* chunks laid end to end, without overlap
start_time_abutting(i, chunk_duration, overlap) == i * chunk_duration
\* start_time = i * (self.chunk_duration - self.overlap)
start_time(i, chunk_duration, overlap) == i * (chunk_duration - overlap)

\* end_time = min(start_time + self.chunk_duration, duration)
end_time(i, duration, chunk_duration, overlap) ==
    LET full == start_time(i, chunk_duration, overlap) + chunk_duration
    IN  IF full < duration THEN full ELSE duration

\* _create_single_chunk_info: the whole artifact as chunk 0
single_chunk_info(duration) ==
    [chunk_index |-> 0, start_time |-> 0, end_time |-> duration,
     duration |-> duration, is_original |-> TRUE]

\* a skip test whose threshold is larger than the overlap
too_short_for_overlap(s, e) == e - s < 3 * MinChunkSeconds
\* "if (end_time - start_time) < 5: continue"
too_short(s, e) == e - s < MinChunkSeconds

\* the loop "for i in range(total_chunks)" of create_chunks from index i on;
\* ffmpeg_fails is the set of indices whose _create_audio_chunk returns False
RECURSIVE SplitLoop(_, _, _, _, _, _)
SplitLoop(i, n, duration, chunk_duration, overlap, ffmpeg_fails) ==
    IF i >= n THEN <<>>
    ELSE LET s == start_time(i, chunk_duration, overlap)
             e == end_time(i, duration, chunk_duration, overlap)
             emitted ==
                 IF too_short(s, e) \/ i \in ffmpeg_fails THEN <<>>
                 ELSE <<[chunk_index |-> i, start_time |-> s, end_time |-> e,
                         duration |-> e - s, is_original |-> FALSE]>>
         IN  emitted \o SplitLoop(i + 1, n, duration, chunk_duration, overlap,
                                  ffmpeg_fails)

\* get_audio_duration: what ffprobe reports, 0.0 when ffmpeg is not available
get_audio_duration(duration, ffmpeg_available) ==
    IF ffmpeg_available THEN duration ELSE 0

\* create_chunks: chunks_info as returned, and the local total_chunks it
\* computes and logs (0 where the single-chunk branch returns before it)
create_chunks(audio, chunk_duration, overlap, ffmpeg_available, ffmpeg_fails) ==
    LET duration == get_audio_duration(audio, ffmpeg_available)
    IN  IF ~ffmpeg_available \/ duration <= chunk_duration
        THEN [fn |-> "create_chunks", total_chunks |-> 0,
              chunks_info |-> <<single_chunk_info(duration)>>]
        ELSE LET n == planned_chunks(duration, chunk_duration, overlap)
             IN  [fn |-> "create_chunks", total_chunks |-> n,
                  chunks_info |-> SplitLoop(0, n, duration, chunk_duration,
                                            overlap, ffmpeg_fails)]

\* the ffmpeg runs of one call: all succeed, or the one at a given index fails
FfmpegFails == {{}} \cup {{i} : i \in 0..MaxFailIndex}

SplitCalls ==
    {[fn |-> "create_chunks", duration |-> d, chunk_duration |-> c[1],
      overlap |-> c[2], ffmpeg_available |-> a, ffmpeg_fails |-> f] :
        d \in 1..MaxDuration, c \in ChunkerConfigs, a \in BOOLEAN,
        f \in FfmpegFails}

\* one call create_chunks(audio_path, session_id)
CallSplit ==
    /\ arg.fn = "create_chunks"
    /\ ret = NoCall
    /\ ret' = create_chunks(arg.duration, arg.chunk_duration, arg.overlap,
                            arg.ffmpeg_available, arg.ffmpeg_fails)
    /\ UNCHANGED <<loopVars, streamVars, workerVars, ghostVars, txVars, arg>>

Outcomes == {"completed", "error"}
Texts == {"short", "long"}

HandlerResults == {"ok", "fail", "raise"}

\* the stores, workers and API before anything has run
InitSystem ==
    /\ stream = <<>>
    /\ cursor = 0
    /\ pel = <<>>
    /\ dlq = <<>>
    /\ pc = [w \in Workers |-> "down"]
    /\ running = [w \in Workers |-> FALSE]
    /\ scan = [w \in Workers |-> <<>>]
    /\ claimed = [w \in Workers |-> <<>>]
    /\ cur = [w \in Workers |-> NoMsg]
    /\ starts = 0
    /\ dispatched = [m \in MsgIds |-> 0]
    /\ failed = [m \in MsgIds |-> 0]
    /\ succeeded = {}
    /\ reclaims = [m \in MsgIds |-> 0]
    /\ acked = {}
    /\ orphaned = [m \in MsgIds |-> 0]
    /\ hres = [w \in Workers |-> "none"]
    /\ sess = [s \in Sessions |-> NoSession]
    /\ sfiles = [s \in Sessions |-> NoFiles]
    /\ medq = <<>>
    /\ apc = ApiIdle
    /\ chunkStatus = [c \in ChunkIds |-> NoChunk]
    /\ ck = [w \in Workers |-> CkOff]
    /\ finals = [s \in Sessions |-> 0]
    /\ consecutive_errors = [w \in Workers |-> 0]
    /\ exit_code = [w \in Workers |-> "none"]
    /\ infra_errors = [w \in Workers |-> 0]

InitCommon ==
    /\ InitSystem
    /\ arg = NoCall
    /\ ret = NoCall

InitBase == InitCommon

NextBase ==
    \/ Produce
    \/ Tick
    \/ \E w \in Workers : Signal(w)
    \/ \E w \in Workers : Crash(w)
    \/ \E w \in Workers : BaseStart(w)
    \/ \E w \in Workers : BaseRecoverScan(w)
    \/ \E w \in Workers : BaseRecoverClaim(w)
    \/ \E w \in Workers : BaseRecoverNext(w)
    \/ \E w \in Workers : BaseLoopRead(w)
    \/ \E w \in Workers : BaseLoopReadEmpty(w)
    \/ \E w \in Workers : \E res \in HandlerResults : BaseHandlerReturn(w, res)
    \/ \E w \in Workers : BaseLoopExit(w)

SpecBase == InitBase /\ [][NextBase]_vars

\* BaseWorker.run while the infrastructure fails: stream reads that raise
\* inside read_stream and exceptions that reach the loop of run()
InitOutage == InitCommon

NextOutage ==
    \/ NextBase
    \/ \E w \in Workers : BaseLoopReadError(w)
    \/ \E w \in Workers : BaseLoopError(w)

SpecOutage == InitOutage /\ [][NextOutage]_vars

\* BaseWorker.run with several messages on the topic and signals that
\* arrive at any point of run()
InitBacklog == InitCommon

NextBacklog ==
    \/ ProduceUpTo(MaxBacklog)
    \/ Tick
    \/ \E w \in Workers : Signal(w)
    \/ \E w \in Workers : SignalBusy(w)
    \/ \E w \in Workers : Crash(w)
    \/ \E w \in Workers : BaseStartUpTo(w, MaxBacklogStarts)
    \/ \E w \in Workers : BaseRecoverScan(w)
    \/ \E w \in Workers : BaseRecoverClaim(w)
    \/ \E w \in Workers : BaseRecoverNext(w)
    \/ \E w \in Workers : BaseLoopRead(w)
    \/ \E w \in Workers : BaseLoopReadEmpty(w)
    \/ \E w \in Workers : \E res \in HandlerResults : BaseHandlerReturn(w, res)
    \/ \E w \in Workers : BaseLoopExit(w)

SpecBacklog == InitBacklog /\ [][NextBacklog]_vars

\* BaseWorker.run scheduling with several messages: as FairSpecBase
FairSpecBacklog ==
    /\ SpecBacklog
    /\ WF_vars(Tick)
    /\ \A w \in Workers :
        /\ WF_vars(BaseRecoverScan(w))
        /\ WF_vars(BaseRecoverClaim(w))
        /\ WF_vars(BaseRecoverNext(w))
        /\ WF_vars(BaseLoopRead(w))
        /\ WF_vars(\E res \in HandlerResults : BaseHandlerReturn(w, res))
        /\ WF_vars(BaseLoopExit(w))

\* BaseWorker.run over a topic whose entries carry a retry_count
InitDlq == InitCommon

NextDlq ==
    \/ \E retry_count \in 0..MaxRetries : ProduceRetried(retry_count)
    \/ Tick
    \/ \E w \in Workers : Signal(w)
    \/ \E w \in Workers : Crash(w)
    \/ \E w \in Workers : BaseStart(w)
    \/ \E w \in Workers : BaseRecoverScan(w)
    \/ \E w \in Workers : BaseRecoverClaim(w)
    \/ \E w \in Workers : BaseRecoverNext(w)
    \/ \E w \in Workers : BaseLoopRead(w)
    \/ \E w \in Workers : BaseLoopReadEmpty(w)
    \/ \E w \in Workers : \E res \in HandlerResults : BaseHandlerReturn(w, res)
    \/ \E w \in Workers : BaseLoopExit(w)

SpecDlq == InitDlq /\ [][NextDlq]_vars

InitDirect == InitCommon

NextDirect ==
    \/ Tick
    \/ \E w \in Workers : Signal(w)
    \/ \E w \in Workers : Crash(w)
    \/ \E s \in Sessions : StreamInit(s)
    \/ \E s \in Sessions : \E q \in Seqs : \E l \in BOOLEAN : SaveChunk(s, q, l)
    \/ \E ok \in BOOLEAN : FinalizeMerge(ok)
    \/ QueueAdd
    \/ QueueSet
    \/ QueueUpd
    \/ \E w \in Workers : TxStart(w, "direct")
    \/ \E w \in Workers : TxCleanupScan(w)
    \/ \E w \in Workers : TxCleanupClaim(w)
    \/ \E w \in Workers : TxCleanupAck(w)
    \/ \E w \in Workers : TxLoopRead(w)
    \/ \E w \in Workers : DirectBegin(w)
    \/ \E w \in Workers : \E o \in Outcomes : \E t \in Texts : DirectFinish(w, o, t)
    \/ \E w \in Workers : DirectQueueMedical(w)
    \/ \E w \in Workers : TxAck(w)
    \/ \E w \in Workers : TxLoopExit(w)

SpecDirect == InitDirect /\ [][NextDirect]_vars

\* the streaming pipeline with the cleanup utility run beside it
InitCleanup == InitCommon

NextCleanup ==
    \/ NextDirect
    \/ CleanupAll

SpecCleanup == InitCleanup /\ [][NextCleanup]_vars

InitChunk == InitCommon

\* the chunk workers (worker_type "chunk"), their completion checkers and an
\* upload that is split into chunks
NextChunk ==
    \/ \E w \in Workers : Signal(w)
    \/ \E w \in Workers : Crash(w)
    \/ \E s \in Sessions : \E info \in ChunkLists : ChunkedUpload(s, info)
    \/ ChunkQueueAdd
    \/ ChunkQueueSet
    \/ ChunkQueueDone
    \/ \E w \in Workers : TxStart(w, "chunk")
    \/ \E w \in Workers : TxCleanupScan(w)
    \/ \E w \in Workers : TxCleanupClaim(w)
    \/ \E w \in Workers : TxCleanupAck(w)
    \/ \E w \in Workers : TxLoopRead(w)
    \/ \E w \in Workers : ChunkBegin(w)
    \/ \E w \in Workers : \E o \in Outcomes : \E t \in Texts : ChunkFinish(w, o, t)
    \/ \E w \in Workers : ChunkCheckMedical(w)
    \/ \E w \in Workers : ChunkQueueMedical(w)
    \/ \E w \in Workers : TxAck(w)
    \/ \E w \in Workers : TxLoopExit(w)
    \/ \E w \in Workers : \E s \in Sessions : CkScan(w, s)
    \/ \E w \in Workers : CkCheck(w)
    \/ \E w \in Workers : CkAllFailed(w)
    \/ \E w \in Workers : CkMergeRead(w)
    \/ \E w \in Workers : \E t \in Texts : CkWrite(w, t)
    \/ \E w \in Workers : CkCleanup(w)

SpecChunk == InitChunk /\ [][NextChunk]_vars

\* uploads through save_uploaded_file, split or not, with the chunk workers
InitUpload == InitCommon

NextUpload ==
    \/ NextChunk
    \/ \E s \in Sessions : DirectUpload(s)

SpecUpload == InitUpload /\ [][NextUpload]_vars

\* the chunk pipeline while keys expire
InitExpiry == InitCommon

NextExpiry ==
    \/ NextChunk
    \/ \E s \in Sessions : ExpireSession(s)
    \/ \E c \in ChunkIds : ExpireChunk(c)

SpecExpiry == InitExpiry /\ [][NextExpiry]_vars

\* BaseWorker.run scheduling: a started worker keeps taking the steps of
\* run(); the clock advances.  Process starts, signals, crashes and producers
\* are the environment's and carry no fairness.
FairSpecBase ==
    /\ SpecBase
    /\ WF_vars(Tick)
    /\ \A w \in Workers :
        /\ WF_vars(BaseRecoverScan(w))
        /\ WF_vars(BaseRecoverClaim(w))
        /\ WF_vars(BaseRecoverNext(w))
        /\ WF_vars(BaseLoopRead(w))
        /\ WF_vars(\E res \in HandlerResults : BaseHandlerReturn(w, res))
        /\ WF_vars(BaseLoopExit(w))

\* merge_transcripts applied to every list of chunk results
InitMerge ==
    /\ InitSystem
    /\ arg \in {[fn |-> "merge_transcripts", chunk_results |-> q] : q \in ResultLists}
    /\ ret = NoCall

NextMerge == CallMerge

SpecMerge == InitMerge /\ [][NextMerge]_vars

\* create_chunks applied to every artifact duration under each configuration
InitSplit ==
    /\ InitSystem
    /\ arg \in SplitCalls
    /\ ret = NoCall

NextSplit == CallSplit

SpecSplit == InitSplit /\ [][NextSplit]_vars

\* chunk path scheduling: the API request in progress runs to its end, a
\* started chunk worker keeps taking the steps of run(), and its completion
\* checker keeps polling.  Uploads, process starts, signals and crashes carry
\* no fairness.
FairSpecChunk ==
    /\ SpecChunk
    /\ WF_vars(ChunkQueueAdd)
    /\ WF_vars(ChunkQueueSet)
    /\ WF_vars(ChunkQueueDone)
    /\ \A w \in Workers :
        /\ WF_vars(TxCleanupScan(w))
        /\ WF_vars(TxCleanupClaim(w))
        /\ WF_vars(TxCleanupAck(w))
        /\ WF_vars(TxLoopRead(w))
        /\ WF_vars(ChunkBegin(w))
        /\ WF_vars(\E o \in Outcomes : \E t \in Texts : ChunkFinish(w, o, t))
        /\ WF_vars(ChunkCheckMedical(w))
        /\ WF_vars(ChunkQueueMedical(w))
        /\ WF_vars(TxAck(w))
        /\ WF_vars(TxLoopExit(w))
        /\ WF_vars(\E s \in Sessions : CkScan(w, s))
        /\ WF_vars(CkCheck(w))
        /\ WF_vars(CkAllFailed(w))
        /\ WF_vars(CkMergeRead(w))
        /\ WF_vars(\E t \in Texts : CkWrite(w, t))
        /\ WF_vars(CkCleanup(w))

\* ================================================================ claims
Handling(w) == pc[w] \in {"handle", "recover_handle"}
Holds(w, m) == cur[w].id = m \/ \E i \in 1..Len(claimed[w]) : claimed[w][i].id = m

\* C1: a message whose handler has failed max_retries (3) times and never
\* succeeded is in the dead-letter topic exactly once and is not in the
\* origin group's pending list.
C1_DeadLetteredOnce ==
    \A m \in MsgIds :
        (failed[m] >= MaxRetries /\ m \notin succeeded)
            => (DlqCount(m) = 1 /\ m \notin DOMAIN pel)

\* C6: no two different workers execute the handler for the same
\* unacknowledged message at the same time.
C6_NoConcurrentHandling ==
    \A w1, w2 \in Workers :
        (w1 # w2 /\ Handling(w1) /\ Handling(w2)) => cur[w1].id # cur[w2].id

\* C7: retries are bounded: the k-th re-dispatch of a message by a recovery
\* pass carries retry_count = k (each reclaim raised what the next one
\* observes), and no message is dispatched more than max_retries + 1 times.
C7_RetriesBounded ==
    /\ \A w \in Workers :
        (pc[w] = "recover_handle" /\ \A o \in Workers \ {w} : ~Holds(o, cur[w].id))
            => get_retry_count(cur[w].fields) = reclaims[cur[w].id]
    /\ \A m \in MsgIds : dispatched[m] <= MaxRetries + 1

\* C9: a message whose handler failed and which is still pending is eventually
\* dispatched again, dead-lettered or removed from the pending list, as long
\* as some worker of the group is up.
C9_FailedIsRedispatched ==
    \A m \in MsgIds : \A k \in 1..(MaxStarts + 1) :
        (failed[m] = k /\ dispatched[m] = k /\ m \in DOMAIN pel)
            ~> \/ dispatched[m] > k
               \/ DlqCount(m) > 0
               \/ m \notin DOMAIN pel
               \/ \A w \in Workers : pc[w] = "down"

\* C2: a message is acknowledged only after its handler returned success for
\* it or after it was appended to the dead-letter topic.
C2_AckOnlyAfterSuccessOrDlq ==
    \A m \in acked : m \in succeeded \/ DlqCount(m) > 0

\* C4: a session's status only moves forward: completed and error are never
\* left, and processing never goes back to queued.
StatusForward(old, new) ==
    /\ old \in {"completed", "error"} => new = old
    /\ old = "processing" => new # "queued"
C4_StatusOnlyForward ==
    [][\A s \in Sessions : StatusForward(sess[s].status, sess'[s].status)]_vars

\* C5: of two workers claiming the same pending message at the same time,
\* only one holds a successful claim.
ClaimWon(w, m) ==
    \/ pc[w] = "cleanup_ack" /\ cur[w].id = m
    \/ pc[w] \in {"recover_claim", "recover_proc"}
         /\ \E i \in 1..Len(claimed[w]) : claimed[w][i].id = m
C5_ClaimExclusive ==
    \A m \in MsgIds : \A w1, w2 \in Workers :
        (ClaimWon(w1, m) /\ ClaimWon(w2, m)) => w1 = w2

\* C8: a message whose worker died inside its handler is never removed from
\* the pending list unless it was dispatched to a handler again after that,
\* handled successfully, or dead-lettered.
C8_OrphanNeverDropped ==
    \A m \in MsgIds :
        (orphaned[m] > 0 /\ m \notin DOMAIN pel)
            => (dispatched[m] > orphaned[m] \/ m \in succeeded \/ DlqCount(m) > 0)

\* C3: check_chunked_completion writes a chunked session's final status
\* (and merged result) at most once, however many completion checkers see
\* all of its chunks terminal.
C3_FinalizedOnce == \A s \in Sessions : finals[s] <= 1

\* C10: for every chunked session, the chunks _get_chunked_progress counts as
\* completed plus those it counts as failed never exceed total_chunks, in the
\* store and in every status_data a completion checker works from.
C10_ProgressWithinTotal ==
    /\ \A s \in Sessions :
          sess[s].strategy = "chunked" =>
              completed_chunks(sess[s].chunks_info, s)
                + failed_chunks(sess[s].chunks_info, s) <= sess[s].total
    /\ \A w \in Workers :
          ck[w].completed_chunks + ck[w].failed_chunks <= ck[w].total_chunks

\* a chunked session with completed and failed chunks that add up to its total
C10_Witness ==
    \E s \in Sessions :
        /\ sess[s].strategy = "chunked"
        /\ completed_chunks(sess[s].chunks_info, s) > 0
        /\ failed_chunks(sess[s].chunks_info, s) > 0
        /\ completed_chunks(sess[s].chunks_info, s)
             + failed_chunks(sess[s].chunks_info, s) = sess[s].total
        /\ \E w \in Workers : ck[w].pc = "merge" /\ ck[w].failed_chunks > 0

\* the extraction topic holds a message for session s
ExtractionQueued(s) == \E i \in 1..Len(medq) : medq[i].session_id = s

\* C11: a chunked session that the completion check finalized as completed
\* with a transcript of more than 10 characters eventually has an extraction
\* message on medical_extraction_queue, as long as a chunk worker is up.
C11_CompletedIsQueuedForExtraction ==
    \A s \in Sessions :
        (sess[s].strategy = "chunked" /\ sess[s].status = "completed"
           /\ sess[s].transcript = "long")
            ~> (ExtractionQueued(s) \/ \A w \in Workers : pc[w] = "down")

\* completion checker w takes the step that writes the result of the merge
MergeWritten(w) == ck[w].pc = "write" /\ ck'[w].pc \in {"cleanup", "idle"}

\* C12: a completion check whose status_data showed every chunk terminal and
\* at least one completed finalizes the session as completed, from exactly
\* the completed chunks' transcripts, with the number of failed chunks as
\* the warning; it finalizes as error only when no chunk completed.
C12_PartialFailureTolerated ==
    [][\A w \in Workers :
          MergeWritten(w) =>
              /\ sess'[ck[w].sid].status = "completed"
              /\ Cardinality(sess'[ck[w].sid].parts) = ck[w].completed_chunks
              /\ sess'[ck[w].sid].warning = ck[w].failed_chunks]_vars

\* every order in which the chunk results q can arrive
Arrivals(q) ==
    {[i \in DOMAIN q |-> q[f[i]]] : f \in {g \in [DOMAIN q -> DOMAIN q] :
                                              \A i, j \in DOMAIN q : i # j => g[i] # g[j]}}

\* C13: merge_transcripts returns the same text, confidence, duration and
\* word count for every arrival order of chunk results with distinct
\* chunk_index values.
C13_MergeIgnoresArrivalOrder ==
    ret # NoCall =>
        \A q \in Arrivals(arg.chunk_results) : merge_transcripts(q) = ret

\* two chunk results with different texts that arrived in reverse index order
C13_Witness ==
    /\ ret # NoCall
    /\ Len(arg.chunk_results) = 2
    /\ arg.chunk_results[1].chunk_index > arg.chunk_results[2].chunk_index
    /\ arg.chunk_results[1].transcript_text # arg.chunk_results[2].transcript_text
    /\ arg.chunk_results[1].transcript_text # <<>>
    /\ arg.chunk_results[2].transcript_text # <<>>

\* the largest k in 1..5 for which the last k words of the accumulated text
\* are the first k words of the incoming text; 0 when there is none
StatedOverlap(accumulated, incoming) ==
    LET ks == {k \in 1..Min({5, Len(accumulated), Len(incoming)}) :
                  LastWords(accumulated, k) = FirstWords(incoming, k)}
    IN IF ks = {} THEN 0 ELSE CHOOSE k \in ks : \A j \in ks : j <= k

\* C14: when the text of the second chunk is appended to a non-empty first
\* text, exactly its first k words are stripped, k being the longest overlap
\* of 1..5 words between the end of the first and the start of the second,
\* whatever the lengths of the two texts.
C14_StripsLongestOverlap ==
    (ret # NoCall /\ Len(arg.chunk_results) = 2) =>
        LET sorted_chunks == sorted_by_index(arg.chunk_results)
            accumulated == sorted_chunks[1].transcript_text
            incoming == sorted_chunks[2].transcript_text
        IN (accumulated # <<>> /\ incoming # <<>>) =>
              ret.text = accumulated
                           \o SubSeq(incoming, StatedOverlap(accumulated, incoming) + 1,
                                     Len(incoming))

RECURSIVE SumWords(_)
SumWords(q) == IF q = <<>> THEN 0 ELSE Len(Head(q).transcript_text) + SumWords(Tail(q))

\* C15: the merged text has at most as many words as the chunk texts have
\* together, and so has the word count merge_transcripts reports.
C15_MergeNeverAddsWords ==
    ret # NoCall =>
        /\ Len(ret.text) <= SumWords(arg.chunk_results)
        /\ ret.words <= SumWords(arg.chunk_results)

\* a merge that removed an overlap
C15_Witness ==
    /\ ret # NoCall
    /\ Len(arg.chunk_results) = 2
    /\ Len(ret.text) < SumWords(arg.chunk_results)

SplitDuration == get_audio_duration(arg.duration, arg.ffmpeg_available)
SplitRan == ret.fn = "create_chunks" /\ SplitDuration > arg.chunk_duration
ChunkTimes == [k \in DOMAIN ret.chunks_info |->
                  <<ret.chunks_info[k].start_time, ret.chunks_info[k].end_time>>]

\* C16: for an artifact longer than chunk_duration, total_chunks is the
\* ceiling of duration / (chunk_duration - overlap), chunk i starts at
\* i * (chunk_duration - overlap) and ends at min(start + chunk_duration,
\* duration); 700 s at 180/10 gives 5 chunks, starts 0,170,340,510,680 and
\* ends 180,350,520,690,700.
C16_SplitFollowsFormula ==
    SplitRan =>
        LET step == arg.chunk_duration - arg.overlap
        IN  /\ ret.total_chunks * step >= SplitDuration
            /\ (ret.total_chunks - 1) * step < SplitDuration
            /\ \A k \in DOMAIN ret.chunks_info :
                   LET c == ret.chunks_info[k]
                   IN  /\ c.start_time = c.chunk_index * step
                       /\ c.end_time <= c.start_time + arg.chunk_duration
                       /\ c.end_time <= SplitDuration
                       /\ c.end_time \in {c.start_time + arg.chunk_duration,
                                          SplitDuration}
            /\ (/\ SplitDuration = 700
                /\ arg.chunk_duration = 180
                /\ arg.overlap = 10
                /\ arg.ffmpeg_fails = {})
               => /\ ret.total_chunks = 5
                  /\ ChunkTimes = << <<0, 180>>, <<170, 350>>, <<340, 520>>,
                                     <<510, 690>>, <<680, 700>> >>

\* the 700 s artifact split into its 5 chunks
C16_Witness ==
    /\ SplitRan
    /\ SplitDuration = 700
    /\ arg.chunk_duration = 180
    /\ arg.overlap = 10
    /\ arg.ffmpeg_fails = {}
    /\ Len(ret.chunks_info) = 5

\* positions in chunks_info of two emitted chunks with chunk_index i and i + 1
ConsecutivePairs ==
    {p \in (DOMAIN ret.chunks_info) \X (DOMAIN ret.chunks_info) :
        ret.chunks_info[p[2]].chunk_index = ret.chunks_info[p[1]].chunk_index + 1}

\* C17 as stated: for every pair of consecutive emitted chunks i and i + 1,
\* end_time(i) - start_time(i + 1) equals the configured overlap, whatever
\* the duration, chunk_duration and overlap.
C17_EveryPairOverlapsExactly ==
    ret.fn = "create_chunks" =>
        \A p \in ConsecutivePairs :
            ret.chunks_info[p[1]].end_time - ret.chunks_info[p[2]].start_time
                = arg.overlap

\* C17: for every pair of consecutive emitted chunks i and i + 1,
\* end_time(i) - start_time(i + 1) equals the configured overlap when chunk
\* i has its full chunk_duration; when chunk i is clipped to the artifact's
\* duration the pair overlaps by duration - start_time(i + 1), which is
\* less than the overlap.
C17_FullChunksOverlapExactly ==
    ret.fn = "create_chunks" =>
        \A p \in ConsecutivePairs :
            LET a == ret.chunks_info[p[1]]
                b == ret.chunks_info[p[2]]
            IN  IF a.end_time = a.start_time + arg.chunk_duration
                THEN a.end_time - b.start_time = arg.overlap
                ELSE /\ a.end_time - b.start_time = SplitDuration - b.start_time
                     /\ a.end_time - b.start_time < arg.overlap

\* a split whose last pair starts with a clipped chunk, after a full pair
C17_Witness ==
    /\ ret.fn = "create_chunks"
    /\ \E p \in ConsecutivePairs :
           ret.chunks_info[p[1]].end_time
               < ret.chunks_info[p[1]].start_time + arg.chunk_duration
    /\ \E p \in ConsecutivePairs :
           ret.chunks_info[p[1]].end_time
               = ret.chunks_info[p[1]].start_time + arg.chunk_duration

\* C18: the chunk records split emits for a session have chunk_index values that
\* are exactly 0..N-1, N being the session's total_chunks (the length of
\* chunks_info), and every chunk has end_time > start_time, also when a
\* short chunk is dropped or the extraction of one chunk fails.
C18_IndicesContiguous ==
    (SplitRan /\ ret.chunks_info # <<>>) =>
        /\ {ret.chunks_info[k].chunk_index : k \in DOMAIN ret.chunks_info}
               = 0..(Len(ret.chunks_info) - 1)
        /\ \A k \in DOMAIN ret.chunks_info :
               ret.chunks_info[k].end_time > ret.chunks_info[k].start_time

C21_ExitsNonZeroAfterErrors ==
    \A w \in Workers :
        infra_errors[w] >= MaxConsecutiveErrors
            => (pc[w] = "down" /\ exit_code[w] \notin {"none", "0"})

AlwaysFailing(m) == m <= Len(stream) /\ failed[m] > 0 /\ failed[m] = dispatched[m]

\* C23: a message whose handler fails or raises on every dispatch does not
\* keep later messages of the topic from being read and dispatched (as long
\* as a worker is up), and run() does not return because of it: it returns
\* only after a shutdown signal.
C23_FailingMessageBlocksNothing ==
    /\ \A m \in 1..MaxBacklog : \A later \in (m + 1)..MaxBacklog :
          (AlwaysFailing(m) /\ later <= Len(stream))
              ~> (dispatched[later] > 0 \/ \A w \in Workers : pc[w] = "down")
    /\ [][\A w \in Workers :
            (exit_code[w] = "none" /\ exit_code'[w] = "0") => ~running[w]]_vars

\* the first message failed and is still pending, the second one has been
\* dispatched by the same run of the only worker started
C23_Witness ==
    /\ AlwaysFailing(1)
    /\ 1 \in DOMAIN pel
    /\ dispatched[2] > 0
    /\ starts = 1

\* messages for session s on the topic, of one type
MessagesOf(s, type) ==
    {i \in 1..Len(stream) :
        stream[i]["session_id"] = s /\ stream[i]["type"] = type}

\* C24: once the request of an accepted upload has ended, the session has a
\* record and either exactly one direct-processing message and no chunk
\* message (not split), or no direct-processing message and exactly
\* total_chunks chunk-processing messages, one per chunk (split).
C24_UploadQueuesItsMessages ==
    \A s \in Sessions :
        (sfiles[s].upload # "none" /\ apc.sid # s) =>
            /\ sess[s].status # "none"
            /\ IF sfiles[s].upload = "direct"
               THEN /\ Cardinality(MessagesOf(s, "direct_processing")) = 1
                    /\ MessagesOf(s, "chunk_processing") = {}
               ELSE /\ MessagesOf(s, "direct_processing") = {}
                    /\ Cardinality(MessagesOf(s, "chunk_processing")) = sess[s].total
                    /\ \A c \in sess[s].chunks_info :
                          Cardinality({i \in MessagesOf(s, "chunk_processing") :
                                          stream[i]["chunk_index"] = c}) = 1

\* extraction messages of session s on medical_extraction_queue
ExtractionsOf(s) == {i \in 1..Len(medq) : medq[i].session_id = s}

\* the transcript fields are written by the status-completed writes only:
\* a session that has them has reached completed
ReachedCompleted(s) == sess[s].transcript # "none"

\* C25: a step that appends an extraction message for a session finds that
\* the session has reached completed and has no extraction message on the
\* topic yet; so a session never has two.
C25_OneExtractionAfterCompleted ==
    [][\A s \in Sessions :
          ExtractionsOf(s)' # ExtractionsOf(s)
              => (ReachedCompleted(s) /\ ExtractionsOf(s) = {})]_vars

\* worker w is inside _process_direct_message on a message whose handler
\* has returned True before
Rehandling(w) ==
    /\ pc[w] \in {"handle", "direct2", "direct3"}
    /\ cur[w].fields["type"] = "direct_processing"
    /\ cur[w].id \in succeeded

\* C26: a step of the direct handler on a message it has handled
\* successfully before leaves the session's status and transcript as they
\* were and appends nothing to the extraction topic.
C26_RehandlingChangesNothing ==
    [][\A w \in Workers :
          (Rehandling(w) /\ pc'[w] # pc[w] /\ pc'[w] # "down")
              => LET s == cur[w].fields["session_id"]
                 IN /\ sess'[s].status = sess[s].status
                    /\ sess'[s].transcript = sess[s].transcript
                    /\ medq' = medq]_vars

\* C29: a read or a claim puts what it returns on the group's pending list;
\* a message the group has acknowledged is never on that list again.
C29_AckedNeverReturned ==
    \A m \in acked : m \notin DOMAIN pel

\* C27: a session record has the transcript fields only in status completed
\* and the error field only in status error.
C27_ResultFieldsMatchStatus ==
    \A s \in Sessions :
        /\ sess[s].transcript # "none" => sess[s].status = "completed"
        /\ sess[s].error => sess[s].status = "error"

\* C28: a step never changes a processing_strategy that has been written.
C28_StrategyNeverChanges ==
    [][\A s \in Sessions :
          sess[s].strategy # "none" => sess'[s].strategy = sess[s].strategy]_vars

\* a split session that the completion checker has finalized
C28_Witness ==
    \E s \in Sessions :
        /\ sess[s].strategy = "chunked"
        /\ sess[s].status \in {"completed", "error"}
        /\ finals[s] > 0

\* C30: a streaming session leaves status recording only for processing, and
\* only in a step that finds a saved chunk flagged as the last one; a chunk
\* upload not flagged as last leaves it in recording.
C30_RecordingUntilLastChunk ==
    [][\A s \in Sessions :
          (sess[s].mode = "streaming" /\ sess[s].status = "recording")
              => /\ sess'[s].status # "recording"
                      => /\ sess'[s].status = "processing"
                         /\ sess[s].last
                         /\ sfiles[s].chunks # {}
                 /\ (sfiles'[s].chunks # sfiles[s].chunks /\ ~sess'[s].last)
                      => sess'[s].status = "recording"]_vars

\* a streaming session of several chunks has left recording
C30_Witness ==
    \E s \in Sessions :
        /\ sess[s].mode = "streaming"
        /\ sess[s].status = "processing"
        /\ Cardinality(sfiles[s].merged) > 1

\* the completion checker of w is about to read a split session some of
\* whose chunks have no terminal status
IncompletePass(w) ==
    /\ ck[w].pc = "check"
    /\ LET s == ck[w].sid
       IN /\ sess[s].strategy = "chunked"
          /\ completed_chunks(sess[s].chunks_info, s)
               + failed_chunks(sess[s].chunks_info, s) < sess[s].total

\* C31: the completion check of a session with chunks outstanding ends the
\* pass (or dies with its process) and writes nothing: session records, chunk status records and
\* extraction topic are as before.
C31_IncompletePassWritesNothing ==
    [][\A w \in Workers :
          (IncompletePass(w) /\ ck'[w] # ck[w])
              => /\ ck'[w] \in {CkIdle, CkOff}
                 /\ UNCHANGED <<sess, chunkStatus, sfiles, medq, finals>>]_vars

\* a pass over a session with one chunk completed and one outstanding
C31_Witness ==
    \E w \in Workers :
        /\ IncompletePass(w)
        /\ completed_chunks(sess[ck[w].sid].chunks_info, ck[w].sid) > 0

\* C32: a step of a completion checker (scan or completion check) on a split
\* session in status completed leaves the session record as it is.
C32_CompletedSessionNotRewritten ==
    [][\A w \in Workers : \A s \in Sessions :
          (/\ ck'[w] # ck[w]
           /\ ck[w].sid = s \/ ck'[w].sid = s
           /\ sess[s].strategy = "chunked"
           /\ sess[s].status = "completed")
              => sess'[s] = sess[s]]_vars

\* C33: outside an ingest request, every session record and every chunk
\* status record in the store has an expiry.
C33_EveryRecordExpires ==
    apc = ApiIdle =>
        /\ \A s \in Sessions : sess[s].status # "none" => sess[s].ttl
        /\ \A c \in ChunkIds : chunkStatus[c].status # "none" => chunkStatus[c].ttl

\* the fields a dead-letter entry adds (the topic's name is in original_stream)
DlqFields == {"original_message_id", "original_stream", "error", "failed_at"}

C35_QueuedBeforeReadable ==
    [][(apc.pc = "queue_set" /\ apc'.pc # "queue_set")
          => /\ \A m \in MessagesOf(apc.sid, "direct_processing") : dispatched[m] = 0
             /\ sess[apc.sid].status \notin {"completed", "error"}]_vars


\* C36: the status of a chunk's record only moves from queued to processing
\* to completed or error: ingest's queued never replaces a status written by
\* a worker, and a completed or error status stays until cleanup deletes it
\* (the write that creates the record is left free).
C36_ChunkStatusOnlyForward ==
    [][\A c \in ChunkIds :
          \/ chunkStatus'[c].status = chunkStatus[c].status
          \/ chunkStatus[c].status = "none"
          \/ <<chunkStatus[c].status, chunkStatus'[c].status>>
                \in {<<"queued", "processing">>, <<"processing", "completed">>,
                     <<"processing", "error">>}
          \/ /\ chunkStatus'[c] = NoChunk
             /\ \E w \in Workers : ck[w].pc = "cleanup" /\ ck[w].sid = c[1]]_vars


\* C37: a chunked session in status processing eventually reaches completed
\* or error, as long as a chunk worker is up and no worker died inside a
\* handler.
C37_ProcessingSessionFinishes ==
    \A s \in Sessions :
        (sess[s].strategy = "chunked" /\ sess[s].status = "processing")
            ~> \/ sess[s].status \in {"completed", "error"}
               \/ \A w \in Workers : pc[w] = "down"
               \/ \E m \in MsgIds : orphaned[m] > 0


\* C38: for an artifact longer than chunk_duration, with an overlap of at
\* least 5 s and every extraction succeeding (no index of the loop is one
\* whose ffmpeg run fails), the emitted chunks cover
\* [0, duration) without a gap: the first starts at 0, each next one starts no
\* later than the one before ends, and the last ends at the duration, also
\* when the last planned chunk was skipped for being shorter than 5 s.
C38_ChunksCoverArtifact ==
    (SplitRan /\ arg.overlap >= MinChunkSeconds /\ (\A i \in arg.ffmpeg_fails : i >= ret.total_chunks)) =>
        LET chunks_info == ret.chunks_info
            n == Len(chunks_info)
        IN  /\ n > 0
            /\ chunks_info[1].start_time = 0
            /\ \A k \in 1..(n - 1) :
                   chunks_info[k + 1].start_time <= chunks_info[k].end_time
            /\ chunks_info[n].end_time = SplitDuration

\* a split at 180/10 whose last planned chunk was skipped as too short
C38_Witness ==
    /\ SplitRan /\ (\A i \in arg.ffmpeg_fails : i >= ret.total_chunks)
    /\ arg.chunk_duration = ChunkSeconds /\ arg.overlap = OverlapSeconds
    /\ Len(ret.chunks_info) < ret.total_chunks
    /\ Len(ret.chunks_info) >= 2


\* C39: a streaming session that was finalized (merged and handed on as
\* streaming_merged) has in its merged file every chunk whose sequence number
\* is below that of the chunk flagged last.
C39_FinalizedHasEveryChunk ==
    \A s \in Sessions :
        sess[s].strategy = "streaming_merged" =>
            \A chunk_sequence \in 0..(sess[s].received - 2) :
                chunk_sequence \in sfiles[s].merged


\* C40: the 'words' of a merge result is the number of whitespace-separated
\* words of its 'text', and 'chunks_processed' is the number of chunk results
\* passed in.
C40_WordsCountMergedText ==
    ret.fn = "merge_transcripts" =>
        /\ ret.words = Len(str_split(ret.full_text))
        /\ ret.chunks_processed = Len(arg.chunk_results)

\* a merge of two texts of several words each, the second shortened by the
\* overlap removal
C40_Witness ==
    /\ ret.fn = "merge_transcripts"
    /\ ret.chunks_processed = 2
    /\ \A k \in 1..2 : Len(arg.chunk_results[k].transcript_text) >= MinOverlapWords
    /\ ret.words > MinOverlapWords
    /\ ret.words < SumWords(arg.chunk_results)

====
